---- MODULE Spec2Model ----
(***************************************************************************)
(* Model of three sentry-cli commands:                                     *)
(*   - `monitors list`     (src/src/commands/monitors.rs, execute_list)    *)
(*   - `monitors run`      (src/src/commands/monitors.rs, execute_run)     *)
(*   - `appcenter-upload`  (src/src/commands/react_native_appcenter.rs,    *)
(*                          execute)                                       *)
(* All are single-threaded sequential procedures.   Each blocking call of  *)
(* the code is one action; the outcome of a call to an external            *)
(* collaborator (API client, process spawn, file system, source-map        *)
(* engine) is chosen nondeterministically in that action.                  *)
(***************************************************************************)
EXTENDS Integers, Sequences, FiniteSets, TLC

VARIABLES
    cmd,                \* which command this invocation runs
    pc,                 \* position in the command's body
    result,             \* the Result<(), Error> the command returns
    effects,            \* calls made to the outside world, in order
    stdout,             \* lines written with println!
    stderr,             \* lines written with eprintln!
    \* ---- monitors run ----
    monitorArg,         \* matches.value_of("monitor")
    allow_failure,      \* matches.is_present("allow_failure")
    monitor_checkin,    \* Result of create_monitor_checkin
    exit_status,        \* process::ExitStatus of the child
    updates,            \* arguments of each update_monitor_checkin call
    \* ---- appcenter-upload ----
    print_release_name, \* matches.is_present("print_release_name")
    dists,              \* values of --dist, in the order given
    paths,              \* values of PATH, in the order given
    wait,               \* matches.is_present("wait")
    release,            \* the computed release name
    version,            \* release.version of the Release the API returned
    pathIdx,            \* index of the directory being listed
    entryIdx,           \* index of the next entry of that directory
    processor,          \* URLs added to the SourceMapProcessor, in order
    distIdx,            \* number of upload passes completed
    passes,             \* UploadContext and outcome of each processor.upload
    \* ---- monitors list ----
    served,             \* the monitors the service returns, in its order
    monitors,           \* `let mut monitors`
    table               \* the rows of the printed table

runVars == <<monitorArg, allow_failure, monitor_checkin, exit_status, updates>>
uploadVars == <<print_release_name, dists, paths, wait, release, version,
                pathIdx, entryIdx, processor, distIdx, passes>>
listVars == <<served, monitors, table>>
vars == <<cmd, pc, result, effects, stdout, stderr, runVars, uploadVars,
          listVars>>

----------------------------------------------------------------------------
(* Bounds *)

MaxExitCode == 2        \* child exit codes 0..MaxExitCode
MaxElapsedSecs == 1     \* whole seconds of started.elapsed()
MaxDists == 3           \* number of --dist values
MaxPaths == 2           \* number of PATH values
MaxMonitors == 3        \* number of monitors the service returns

----------------------------------------------------------------------------
(* Values *)

None == "None"

\* Result<(), Error> of a command: still running, Ok(()), Err(QuietExit(code))
\* or Err(any other error, named by err).
Running == [kind |-> "running", code |-> 0, err |-> ""]
Ok == [kind |-> "ok", code |-> 0, err |-> ""]
QuietExit(code) == [kind |-> "quiet", code |-> code, err |-> ""]
Err(e) == [kind |-> "error", code |-> 0, err |-> e]

\* Argument strings given for the monitor ID, and those that are UUIDs.
MonitorArgs == {"7f3a1c9e-0d2b-4c55-9b1e-2f6f0a4d8e11",
                "00000000000000000000000000000000",
                "my-monitor", ""}
Uuids == {"7f3a1c9e-0d2b-4c55-9b1e-2f6f0a4d8e11",
          "00000000000000000000000000000000"}

\* str::parse::<Uuid>()
ParseUuid(s) == IF s \in Uuids THEN [ok |-> TRUE, uuid |-> s]
                ELSE [ok |-> FALSE, uuid |-> None]

\* IDs the service can give a new check-in.
CheckinIds == {"c1", "c2"}

\* Result<MonitorCheckIn, Error> of create_monitor_checkin.
CreateOutcomes == {[ok |-> TRUE, id |-> i] : i \in CheckinIds}
                     \cup {[ok |-> FALSE, id |-> None]}

\* process::ExitStatus: exited with a code, or ended by a signal (no code).
Signalled == [exited |-> FALSE, code |-> 0]
ExitStatuses == {[exited |-> TRUE, code |-> c] : c \in 0..MaxExitCode}
                   \cup {Signalled}
NoStatus == [exited |-> FALSE, code |-> -1]

\* ExitStatus::success()
Success(es) == es.exited /\ es.code = 0

\* ExitStatus::code()
Code(es) == IF es.exited THEN [some |-> TRUE, val |-> es.code]
            ELSE [some |-> FALSE, val |-> 0]

\* Duration of started.elapsed(): whole seconds and the sub-second part in ms.
SubsecMillis == {0, 250, 999}
Elapsed == [secs : 0..MaxElapsedSecs, subsec_millis : SubsecMillis]

\* elapsed.as_secs() * 1000 + u64::from(elapsed.subsec_millis())
DurationMs(elapsed) == elapsed.secs * 1000 + elapsed.subsec_millis

\* The status sent in UpdateMonitorCheckIn.
UpdateStatusByCode(es) == IF Code(es).val = 0 THEN "Ok" ELSE "Error"
UpdateStatus(es) == IF Success(es) THEN "Ok" ELSE "Error"

\* The Err(e) arm of `match monitor_checkin`: continue or return the error.
ErrArmAlwaysContinues(allow) == [continue |-> TRUE, result |-> Running]
ErrArmNeverContinues(allow) == [continue |-> FALSE, result |-> Err("checkin")]
ErrArm(allow) ==
    IF allow THEN [continue |-> TRUE, result |-> Running]
    ELSE [continue |-> FALSE, result |-> Err("checkin")]

\* The value execute_run returns after the match.
FinalResultAlwaysOne(es) == IF ~Success(es) THEN QuietExit(1) ELSE Ok
FinalResultNoCodeZero(es) ==
    IF ~Success(es) THEN QuietExit(Code(es).val) ELSE Ok
FinalResult(es) ==
    IF ~Success(es)
    THEN IF Code(es).some THEN QuietExit(Code(es).val) ELSE QuietExit(1)
    ELSE Ok

Count(seq, x) == Cardinality({i \in 1..Len(seq) : seq[i] = x})

----------------------------------------------------------------------------
(* monitors list: execute_list *)

\* Monitor names are sequences of characters; String orders them by bytes.
CharCode(c) == IF c = "Z" THEN 90 ELSE IF c = "a" THEN 97 ELSE 98
MonitorNames == {<<>>, <<"a">>, <<"a", "b">>, <<"b">>, <<"Z">>}
MonitorIds == {"m1", "m2"}
Monitors == [id : MonitorIds, name : MonitorNames, status : {"active"}]

\* a <= b for String keys (Ord for String).
RECURSIVE NameLeq(_, _)
NameLeq(a, b) ==
    IF a = <<>> THEN TRUE
    ELSE IF b = <<>> THEN FALSE
    ELSE IF CharCode(Head(a)) < CharCode(Head(b)) THEN TRUE
    ELSE IF CharCode(Head(a)) > CharCode(Head(b)) THEN FALSE
    ELSE NameLeq(Tail(a), Tail(b))

\* monitors.sort_by_key(|p| p.name.clone()): a stable sort by name.
RECURSIVE InsertByName(_, _)
InsertByName(m, sorted) ==
    IF sorted = <<>> THEN <<m>>
    ELSE IF NameLeq(m.name, Head(sorted).name) THEN <<m>> \o sorted
    ELSE <<Head(sorted)>> \o InsertByName(m, Tail(sorted))
SortByNameLeftUnsorted(ms) == ms
RECURSIVE SortByName(_)
SortByName(ms) ==
    IF ms = <<>> THEN <<>>
    ELSE InsertByName(Head(ms), SortByName(Tail(ms)))

\* ctx.api.list_organization_monitors(ctx.get_org()?)?
FetchMonitors ==
    /\ cmd = "list" /\ pc = "fetch"
    /\ effects' = Append(effects, "list")
    /\ \E fetched \in BOOLEAN :
          IF fetched
          THEN /\ monitors' = served
               /\ pc' = "sort"
               /\ UNCHANGED result
          ELSE /\ pc' = "done"
               /\ result' = Err("list")
               /\ UNCHANGED monitors
    /\ UNCHANGED <<cmd, stdout, stderr, runVars, uploadVars, served, table>>

\* monitors.sort_by_key(..)
SortMonitors ==
    /\ cmd = "list" /\ pc = "sort"
    /\ monitors' = SortByName(monitors)
    /\ pc' = "print"
    /\ UNCHANGED <<cmd, result, effects, stdout, stderr, runVars, uploadVars,
                   served, table>>

\* One add_row per monitor, table.print() and Ok(())
PrintTable ==
    /\ cmd = "list" /\ pc = "print"
    /\ table' = [i \in 1..Len(monitors) |->
                    <<monitors[i].id, monitors[i].name, monitors[i].status>>]
    /\ stdout' = Append(stdout, [line |-> "table", arg |-> ""])
    /\ result' = Ok
    /\ pc' = "done"
    /\ UNCHANGED <<cmd, effects, stderr, runVars, uploadVars, served,
                   monitors>>

ListNext == FetchMonitors \/ SortMonitors \/ PrintTable

----------------------------------------------------------------------------
(* monitors run: execute_run *)

\* .parse::<Uuid>().context("invalid monitor ID")?
ParseMonitorUnchecked ==
    /\ cmd = "run" /\ pc = "parse"
    /\ pc' = "create"
    /\ UNCHANGED <<listVars, cmd, result, effects, stdout, stderr, runVars, uploadVars>>
ParseMonitor ==
    /\ cmd = "run" /\ pc = "parse"
    /\ IF ParseUuid(monitorArg).ok
       THEN /\ pc' = "create"
            /\ UNCHANGED result
       ELSE /\ pc' = "done"
            /\ result' = Err("invalid monitor ID")
    /\ UNCHANGED <<listVars, cmd, effects, stdout, stderr, runVars, uploadVars>>

\* ctx.api.create_monitor_checkin(&monitor, status InProgress)
CreateCheckinRetrying ==
    /\ cmd = "run" /\ pc = "create"
    /\ \E first \in CreateOutcomes, second \in CreateOutcomes :
          IF first.ok
          THEN /\ monitor_checkin' = first
               /\ effects' = Append(effects, "create")
          ELSE /\ monitor_checkin' = second
               /\ effects' = effects \o <<"create", "create">>
    /\ pc' = "spawn"
    /\ UNCHANGED <<listVars, cmd, result, stdout, stderr, monitorArg, allow_failure,
                   exit_status, updates, uploadVars>>
CreateCheckinSpawnsFirst ==
    /\ cmd = "run" /\ pc = "create"
    /\ \E outcome \in CreateOutcomes : monitor_checkin' = outcome
    /\ effects' = effects \o <<"spawn", "create">>
    /\ pc' = "wait"
    /\ UNCHANGED <<listVars, cmd, result, stdout, stderr, monitorArg, allow_failure,
                   exit_status, updates, uploadVars>>
CreateCheckin ==
    /\ cmd = "run" /\ pc = "create"
    /\ \E outcome \in CreateOutcomes : monitor_checkin' = outcome
    /\ effects' = Append(effects, "create")
    /\ pc' = "spawn"
    /\ UNCHANGED <<listVars, cmd, result, stdout, stderr, monitorArg, allow_failure,
                   exit_status, updates, uploadVars>>

\* p.status()?, first half: the child is spawned, or the spawn fails.
SpawnChildUnlessCreateFailed ==
    /\ cmd = "run" /\ pc = "spawn"
    /\ IF ~monitor_checkin.ok /\ ~allow_failure
       THEN /\ pc' = "done"
            /\ result' = Err("checkin")
            /\ UNCHANGED effects
       ELSE /\ effects' = Append(effects, "spawn")
            /\ \E spawned \in BOOLEAN :
                  IF spawned
                  THEN /\ pc' = "wait"
                       /\ UNCHANGED result
                  ELSE /\ pc' = "done"
                       /\ result' = Err("spawn")
    /\ UNCHANGED <<listVars, cmd, stdout, stderr, runVars, uploadVars>>
SpawnChildFailureAsExit ==
    /\ cmd = "run" /\ pc = "spawn"
    /\ effects' = Append(effects, "spawn")
    /\ \E spawned \in BOOLEAN :
          IF spawned
          THEN /\ pc' = "wait"
               /\ UNCHANGED exit_status
          ELSE /\ pc' = "match"
               /\ exit_status' = Signalled
    /\ UNCHANGED <<listVars, cmd, result, stdout, stderr, monitorArg, allow_failure,
                   monitor_checkin, updates, uploadVars>>
SpawnChild ==
    /\ cmd = "run" /\ pc = "spawn"
    /\ effects' = Append(effects, "spawn")
    /\ \E spawned \in BOOLEAN :
          IF spawned
          THEN /\ pc' = "wait"
               /\ UNCHANGED result
          ELSE /\ pc' = "done"
               /\ result' = Err("spawn")
    /\ UNCHANGED <<listVars, cmd, stdout, stderr, runVars, uploadVars>>

\* p.status()?, second half: the child ends and its status is captured.
ChildExit ==
    /\ cmd = "run" /\ pc = "wait"
    /\ \E es \in ExitStatuses : exit_status' = es
    /\ effects' = Append(effects, "exit")
    /\ pc' = "match"
    /\ UNCHANGED <<listVars, cmd, result, stdout, stderr, monitorArg, allow_failure,
                   monitor_checkin, updates, uploadVars>>

\* match monitor_checkin { Ok(checkin) => update(..).ok(), Err(e) => .. }
MatchCheckinUpdateFatal ==
    /\ cmd = "run" /\ pc = "match"
    /\ IF monitor_checkin.ok
       THEN /\ \E elapsed \in Elapsed, updated \in BOOLEAN :
                  /\ updates' = Append(updates,
                                   [id |-> monitor_checkin.id,
                                    status |-> UpdateStatus(exit_status),
                                    duration |-> DurationMs(elapsed),
                                    ok |-> updated])
                  /\ IF updated
                     THEN pc' = "final" /\ UNCHANGED result
                     ELSE pc' = "done" /\ result' = Err("update")
            /\ effects' = Append(effects, "update")
            /\ UNCHANGED stderr
       ELSE /\ IF ErrArm(allow_failure).continue
               THEN /\ stderr' = Append(stderr, "checkin")
                    /\ pc' = "final"
                    /\ UNCHANGED result
               ELSE /\ result' = ErrArm(allow_failure).result
                    /\ pc' = "done"
                    /\ UNCHANGED stderr
            /\ UNCHANGED <<effects, updates>>
    /\ UNCHANGED <<listVars, cmd, stdout, monitorArg, allow_failure, monitor_checkin,
                   exit_status, uploadVars>>
MatchCheckin ==
    /\ cmd = "run" /\ pc = "match"
    /\ IF monitor_checkin.ok
       THEN /\ \E elapsed \in Elapsed, updated \in BOOLEAN :
                  updates' = Append(updates,
                                [id |-> monitor_checkin.id,
                                 status |-> UpdateStatus(exit_status),
                                 duration |-> DurationMs(elapsed),
                                 ok |-> updated])
            /\ effects' = Append(effects, "update")
            /\ pc' = "final"
            /\ UNCHANGED <<result, stderr>>
       ELSE /\ IF ErrArm(allow_failure).continue
               THEN /\ stderr' = Append(stderr, "checkin")
                    /\ pc' = "final"
                    /\ UNCHANGED result
               ELSE /\ result' = ErrArm(allow_failure).result
                    /\ pc' = "done"
                    /\ UNCHANGED stderr
            /\ UNCHANGED <<effects, updates>>
    /\ UNCHANGED <<listVars, cmd, stdout, monitorArg, allow_failure, monitor_checkin,
                   exit_status, uploadVars>>

\* if !exit_status.success() { Err(QuietExit(..)) } else { Ok(()) }
ReturnStatus ==
    /\ cmd = "run" /\ pc = "final"
    /\ result' = FinalResult(exit_status)
    /\ pc' = "done"
    /\ UNCHANGED <<listVars, cmd, effects, stdout, stderr, runVars, uploadVars>>

RunNext == ParseMonitor \/ CreateCheckin \/ SpawnChild \/ ChildExit
              \/ MatchCheckin \/ ReturnStatus

----------------------------------------------------------------------------
(* appcenter-upload: values *)

NoneStr == [some |-> FALSE, val |-> ""]
SomeStr(x) == [some |-> TRUE, val |-> x]
NoneName == [some |-> FALSE, val |-> <<>>]
SomeName(x) == [some |-> TRUE, val |-> x]

\* Sequences over S of length lo..hi.
SeqsOf(S, lo, hi) == UNION {[1..n -> S] : n \in lo..hi}

\* Those that name no element twice.
DistinctSeqsOf(S, lo, hi) ==
    {q \in SeqsOf(S, lo, hi) :
        \A i, j \in 1..Len(q) : q[i] = q[j] => i = j}

\* Values of --dist and of PATH.
DistNames == {"staging", "prod"}
DirNames == {"out", "maps", "empty"}

\* File names are sequences of characters.
A_jsbundle == <<"a", ".", "j", "s", "b", "u", "n", "d", "l", "e">>
A_map == <<"a", ".", "m", "a", "p">>
Notes_txt == <<"n", "o", "t", "e", "s", ".", "t", "x", "t">>
B_bundle == <<"b", ".", "b", "u", "n", "d", "l", "e">>
Dot_map == <<".", "m", "a", "p">>
Readme == <<"R", "E", "A", "D", "M", "E">>
X_min_map == <<"x", ".", "m", "i", "n", ".", "m", "a", "p">>

\* The entries fs::read_dir yields for each directory, in order.
Listing(dir) ==
    IF dir = "out" THEN <<A_jsbundle, A_map, Notes_txt, B_bundle>>
    ELSE IF dir = "maps" THEN <<Dot_map, Readme, X_min_map>>
    ELSE <<>>

\* The three extensions execute selects.
Jsbundle == <<"j", "s", "b", "u", "n", "d", "l", "e">>
Map == <<"m", "a", "p">>
Bundle == <<"b", "u", "n", "d", "l", "e">>

\* Path::extension() of a file name: the part after the last '.', unless
\* there is no '.' or the only '.' is the first character.
LastDot(name) ==
    LET dots == {i \in 1..Len(name) : name[i] = "."}
    IN  IF dots = {} THEN 0 ELSE CHOOSE i \in dots : \A j \in dots : j <= i
ExtensionAfterAnyDot(name) ==
    IF LastDot(name) = 0 THEN NoneName
    ELSE SomeName(SubSeq(name, LastDot(name) + 1, Len(name)))
Extension(name) ==
    IF LastDot(name) <= 1 THEN NoneName
    ELSE SomeName(SubSeq(name, LastDot(name) + 1, Len(name)))

\* The extension test of the if_chain.
Selected(name) ==
    /\ Extension(name).some
    /\ \/ Extension(name).val = Jsbundle
       \/ Extension(name).val = Map
       \/ Extension(name).val = Bundle

\* format!("~/{}", filename)
Url(filename) == <<"~", "/">> \o filename

\* What the name computation and the release service can return.
ReleaseNames == {"com.app@1.2+codepush:v7"}
VersionsFor(name) == {name, "normalised"}

\* The dist of each processor.upload the match on values_of("dist") makes:
\* None when no --dist was given, else each value in the order given.
UploadPlanReversed(ds) ==
    IF ds = <<>> THEN <<NoneStr>>
    ELSE [i \in 1..Len(ds) |-> SomeStr(ds[Len(ds) + 1 - i])]
UploadPlan(ds) ==
    IF ds = <<>> THEN <<NoneStr>>
    ELSE [i \in 1..Len(ds) |-> SomeStr(ds[i])]

\* `if !print_release_name` around the first progress line.
AnnouncesAlways(print) == TRUE
Announces(print) == ~print

\* `if let Ok(entry) = entry`: an entry that fails to read is skipped.
EntryErrPropagates(readOk) == IF readOk THEN "use" ELSE "abort"
EntryStep(readOk) == IF readOk THEN "use" ELSE "skip"

\* The `?` on processor.upload: a failed pass ends the run.
UploadErrIgnored(uploaded) == "continue"
UploadStep(uploaded) == IF uploaded THEN "continue" ELSE "abort"

\* Where the collection loops go after entry ei of directory pi.
AfterEntryFirstDirOnly(pi, ei) ==
    IF ei < Len(Listing(paths[pi]))
    THEN [pc |-> "entry", pathIdx |-> pi, entryIdx |-> ei + 1]
    ELSE [pc |-> "rewrite", pathIdx |-> pi, entryIdx |-> ei]
AfterEntry(pi, ei) ==
    IF ei < Len(Listing(paths[pi]))
    THEN [pc |-> "entry", pathIdx |-> pi, entryIdx |-> ei + 1]
    ELSE IF pi < Len(paths)
         THEN [pc |-> "read_dir", pathIdx |-> pi + 1, entryIdx |-> 0]
         ELSE [pc |-> "rewrite", pathIdx |-> pi, entryIdx |-> ei]

----------------------------------------------------------------------------
(* appcenter-upload: execute *)

\* env::current_dir()? and config.get_org_and_project(matches)?
Setup ==
    /\ cmd = "upload" /\ pc = "setup"
    /\ \E outcome \in {"ok", "current_dir", "config"} :
          IF outcome = "ok"
          THEN /\ pc' = "announce"
               /\ UNCHANGED result
          ELSE /\ pc' = "done"
               /\ result' = Err(outcome)
    /\ UNCHANGED <<listVars, cmd, effects, stdout, stderr, runVars, uploadVars>>

\* if !print_release_name { println!("> Fetching latest AppCenter ...") }
AnnounceFetching ==
    /\ cmd = "upload" /\ pc = "announce"
    /\ stdout' = IF Announces(print_release_name)
                 THEN Append(stdout, [line |-> "fetching", arg |-> ""])
                 ELSE stdout
    /\ pc' = "package"
    /\ UNCHANGED <<listVars, cmd, result, effects, stderr, runVars, uploadVars>>

\* get_appcenter_package(app, deployment)?
GetPackage ==
    /\ cmd = "upload" /\ pc = "package"
    /\ effects' = Append(effects, "package")
    /\ \E found \in BOOLEAN :
          IF found
          THEN /\ pc' = "release_name"
               /\ UNCHANGED result
          ELSE /\ pc' = "done"
               /\ result' = Err("package")
    /\ UNCHANGED <<listVars, cmd, stdout, stderr, runVars, uploadVars>>

\* get_react_native_appcenter_release(..)?, the --print-release-name return
\* and the "Processing" progress line.
GetReleaseName ==
    /\ cmd = "upload" /\ pc = "release_name"
    /\ effects' = Append(effects, "release_name")
    /\ \E computed \in BOOLEAN, name \in ReleaseNames :
          IF ~computed
          THEN /\ pc' = "done"
               /\ result' = Err("release_name")
               /\ UNCHANGED <<stdout, release, pathIdx>>
          ELSE /\ release' = name
               /\ IF print_release_name
                  THEN /\ stdout' = Append(stdout,
                                      [line |-> "release", arg |-> name])
                       /\ pc' = "done"
                       /\ result' = Ok
                       /\ UNCHANGED pathIdx
                  ELSE /\ stdout' = Append(stdout,
                                      [line |-> "processing", arg |-> ""])
                       /\ pc' = "read_dir"
                       /\ pathIdx' = 1
                       /\ UNCHANGED result
    /\ UNCHANGED <<listVars, cmd, stderr, runVars, print_release_name, dists, paths,
                   wait, version, entryIdx, processor, distIdx, passes>>

\* fs::read_dir(path)? for the next path
ReadDir ==
    /\ cmd = "upload" /\ pc = "read_dir"
    /\ effects' = Append(effects, "read_dir")
    /\ \E listed \in BOOLEAN :
          IF listed
          THEN /\ pc' = AfterEntry(pathIdx, 0).pc
               /\ pathIdx' = AfterEntry(pathIdx, 0).pathIdx
               /\ entryIdx' = AfterEntry(pathIdx, 0).entryIdx
               /\ UNCHANGED result
          ELSE /\ pc' = "done"
               /\ result' = Err("read_dir")
               /\ UNCHANGED <<pathIdx, entryIdx>>
    /\ UNCHANGED <<listVars, cmd, stdout, stderr, runVars, print_release_name, dists,
                   paths, wait, release, version, processor, distIdx, passes>>

\* One iteration of `for entry in fs::read_dir(path)?`: the if_chain and
\* processor.add(&url, ReleaseFileSearch::collect_file(entry.path())?)?
NextEntry ==
    /\ cmd = "upload" /\ pc = "entry"
    /\ LET name == Listing(paths[pathIdx])[entryIdx]
           next == AfterEntry(pathIdx, entryIdx)
       IN  \E readOk \in BOOLEAN, added \in {"ok", "collect_file", "add"} :
              IF EntryStep(readOk) = "abort"
              THEN /\ effects' = Append(effects, "entry_err")
                   /\ pc' = "done"
                   /\ result' = Err("entry")
                   /\ UNCHANGED <<processor, pathIdx, entryIdx>>
              ELSE IF EntryStep(readOk) = "use" /\ Selected(name)
              THEN /\ effects' = Append(effects, "collect_file")
                   /\ IF added = "ok"
                      THEN /\ processor' = Append(processor, Url(name))
                           /\ pc' = next.pc
                           /\ pathIdx' = next.pathIdx
                           /\ entryIdx' = next.entryIdx
                           /\ UNCHANGED result
                      ELSE /\ pc' = "done"
                           /\ result' = Err(added)
                           /\ UNCHANGED <<processor, pathIdx, entryIdx>>
              ELSE /\ effects' = IF readOk THEN effects
                                 ELSE Append(effects, "entry_err")
                   /\ pc' = next.pc
                   /\ pathIdx' = next.pathIdx
                   /\ entryIdx' = next.entryIdx
                   /\ UNCHANGED <<result, processor>>
    /\ UNCHANGED <<listVars, cmd, stdout, stderr, runVars, print_release_name, dists,
                   paths, wait, release, version, distIdx, passes>>

\* processor.rewrite(&[here_str])?
Rewrite ==
    /\ cmd = "upload" /\ pc = "rewrite"
    /\ effects' = Append(effects, "rewrite")
    /\ \E rewritten \in BOOLEAN :
          IF rewritten
          THEN /\ pc' = "add_references"
               /\ UNCHANGED result
          ELSE /\ pc' = "done"
               /\ result' = Err("rewrite")
    /\ UNCHANGED <<listVars, cmd, stdout, stderr, runVars, uploadVars>>

\* processor.add_sourcemap_references()?
AddSourcemapReferences ==
    /\ cmd = "upload" /\ pc = "add_references"
    /\ effects' = Append(effects, "add_references")
    /\ \E injected \in BOOLEAN :
          IF injected
          THEN /\ pc' = "new_release"
               /\ UNCHANGED result
          ELSE /\ pc' = "done"
               /\ result' = Err("add_references")
    /\ UNCHANGED <<listVars, cmd, stdout, stderr, runVars, uploadVars>>

\* api.new_release(&org, &NewRelease { version: release, .. })?
NewReleaseErrIgnored ==
    /\ cmd = "upload" /\ pc = "new_release"
    /\ effects' = Append(effects, "new_release")
    /\ \E created \in BOOLEAN, v \in VersionsFor(release) :
          version' = IF created THEN v ELSE version
    /\ pc' = "upload"
    /\ UNCHANGED <<listVars, cmd, result, stdout, stderr, runVars, print_release_name,
                   dists, paths, wait, release, pathIdx, entryIdx, processor,
                   distIdx, passes>>
NewRelease ==
    /\ cmd = "upload" /\ pc = "new_release"
    /\ effects' = Append(effects, "new_release")
    /\ \E created \in BOOLEAN, v \in VersionsFor(release) :
          IF created
          THEN /\ version' = v
               /\ pc' = "upload"
               /\ UNCHANGED result
          ELSE /\ pc' = "done"
               /\ result' = Err("new_release")
               /\ UNCHANGED version
    /\ UNCHANGED <<listVars, cmd, stdout, stderr, runVars, print_release_name, dists,
                   paths, wait, release, pathIdx, entryIdx, processor,
                   distIdx, passes>>

\* One processor.upload(&UploadContext { .. })? of `match values_of("dist")`,
\* with the println! before it; after the last one, Ok(()).
UploadPass ==
    /\ cmd = "upload" /\ pc = "upload"
    /\ LET plan == UploadPlan(dists)
           dist == plan[distIdx + 1]
       IN  /\ stdout' = Append(stdout,
                          [line |-> "uploading",
                           arg |-> IF dist.some THEN dist.val ELSE ""])
           /\ effects' = Append(effects, "upload")
           /\ \E uploaded \in BOOLEAN :
                 /\ passes' = Append(passes,
                                [release |-> version, dist |-> dist,
                                 wait |-> wait, ok |-> uploaded])
                 /\ IF UploadStep(uploaded) = "abort"
                    THEN /\ pc' = "done"
                         /\ result' = Err("upload")
                         /\ UNCHANGED distIdx
                    ELSE /\ distIdx' = distIdx + 1
                         /\ IF distIdx + 1 = Len(plan)
                            THEN /\ pc' = "done"
                                 /\ result' = Ok
                            ELSE UNCHANGED <<pc, result>>
    /\ UNCHANGED <<listVars, cmd, stderr, runVars, print_release_name, dists, paths,
                   wait, release, version, pathIdx, entryIdx, processor>>

UploadNext == Setup \/ AnnounceFetching \/ GetPackage \/ GetReleaseName
                 \/ ReadDir \/ NextEntry \/ Rewrite \/ AddSourcemapReferences
                 \/ NewRelease \/ UploadPass

----------------------------------------------------------------------------

InitRun ==
    /\ cmd = "run" /\ pc = "parse"
    /\ monitorArg \in MonitorArgs
    /\ allow_failure \in BOOLEAN
    /\ monitor_checkin = [ok |-> FALSE, id |-> None]
    /\ exit_status = NoStatus
    /\ updates = <<>>
    /\ print_release_name = FALSE
    /\ dists = <<>>
    /\ paths = <<>>
    /\ wait = FALSE
    /\ release = None
    /\ version = None
    /\ pathIdx = 0 /\ entryIdx = 0
    /\ processor = <<>>
    /\ distIdx = 0
    /\ passes = <<>>
    /\ served = <<>> /\ monitors = <<>> /\ table = <<>>

InitUpload ==
    /\ cmd = "upload" /\ pc = "setup"
    /\ print_release_name \in BOOLEAN
    /\ dists \in SeqsOf(DistNames, 0, MaxDists)
    /\ paths \in DistinctSeqsOf(DirNames, 1, MaxPaths)
    /\ wait \in BOOLEAN
    /\ release = None
    /\ version = None
    /\ pathIdx = 0 /\ entryIdx = 0
    /\ processor = <<>>
    /\ distIdx = 0
    /\ passes = <<>>
    /\ monitorArg = ""
    /\ allow_failure = FALSE
    /\ monitor_checkin = [ok |-> FALSE, id |-> None]
    /\ exit_status = NoStatus
    /\ updates = <<>>
    /\ served = <<>> /\ monitors = <<>> /\ table = <<>>

InitList ==
    /\ cmd = "list" /\ pc = "fetch"
    /\ served \in SeqsOf(Monitors, 0, MaxMonitors)
    /\ monitors = <<>> /\ table = <<>>
    /\ monitorArg = ""
    /\ allow_failure = FALSE
    /\ monitor_checkin = [ok |-> FALSE, id |-> None]
    /\ exit_status = NoStatus
    /\ updates = <<>>
    /\ print_release_name = FALSE
    /\ dists = <<>>
    /\ paths = <<>>
    /\ wait = FALSE
    /\ release = None
    /\ version = None
    /\ pathIdx = 0 /\ entryIdx = 0
    /\ processor = <<>>
    /\ distIdx = 0
    /\ passes = <<>>

Init ==
    /\ result = Running
    /\ effects = <<>>
    /\ stdout = <<>>
    /\ stderr = <<>>
    /\ (InitRun \/ InitUpload \/ InitList)

Next == RunNext \/ UploadNext \/ ListNext

Spec == Init /\ [][Next]_vars

----------------------------------------------------------------------------
(* Properties of monitors run *)

RunDone == cmd = "run" /\ pc = "done"
ValidMonitor == ParseUuid(monitorArg).ok
CreateCalled == Count(effects, "create") >= 1
CreateFailed == CreateCalled /\ ~monitor_checkin.ok
ChildExited == Count(effects, "exit") >= 1

\* C1: when check-in creation fails and allow_failure is false, the run never
\* ends as a success or as a quiet exit; whenever the child was spawned and
\* ended (exit 0, non-zero exit, signal) the result is the creation error.
C1_CreateFailureIsFatal ==
    (RunDone /\ ValidMonitor /\ CreateFailed /\ ~allow_failure)
        => /\ result.kind = "error"
           /\ ChildExited => result = Err("checkin")
C1_Witness ==
    /\ RunDone /\ CreateFailed /\ ~allow_failure
    /\ ChildExited /\ Success(exit_status)
    /\ result = Err("checkin")

\* C2: when check-in creation fails, allow_failure is true and the child
\* exited with a code, the result carries exactly that code: Ok for 0 and
\* QuietExit(c) for a non-zero c.
C2_AllowFailureKeepsChildCode ==
    (RunDone /\ CreateFailed /\ allow_failure /\ ChildExited
       /\ exit_status.exited)
        => result = IF exit_status.code = 0 THEN Ok
                    ELSE QuietExit(exit_status.code)
C2_Witness ==
    /\ RunDone /\ CreateFailed /\ allow_failure
    /\ exit_status = [exited |-> TRUE, code |-> 2]
    /\ result = QuietExit(2)
    /\ stderr = <<"checkin">>

\* C3 as stated: a child that exits 0 makes the run succeed whatever the
\* check-in creation outcome and allow_failure are.
C3_Original ==
    (RunDone /\ ValidMonitor /\ ChildExited /\ Success(exit_status))
        => result = Ok

\* C3, amended: a child that exits 0 makes the run succeed whatever the
\* update outcome is, provided creation succeeded or allow_failure is true;
\* after a failed creation with allow_failure false the result is the
\* creation error.
C3_SuccessfulChild ==
    (RunDone /\ ValidMonitor /\ ChildExited /\ Success(exit_status))
        => result = IF ~monitor_checkin.ok /\ ~allow_failure
                    THEN Err("checkin") ELSE Ok
C3_Witness ==
    /\ RunDone /\ ChildExited /\ Success(exit_status)
    /\ ~monitor_checkin.ok /\ allow_failure
    /\ result = Ok

\* C4: the creation call is never made twice and is made exactly once in
\* every finished run with a valid monitor ID; the update call is made at
\* most once.
C4_OneCreateAtMostOneUpdate ==
    cmd = "run"
        => /\ Count(effects, "create") <= 1
           /\ Count(effects, "update") <= 1
           /\ Len(updates) = Count(effects, "update")
           /\ (pc = "done" /\ ValidMonitor) => Count(effects, "create") = 1
C4_Witness ==
    /\ RunDone /\ Count(effects, "create") = 1 /\ Len(updates) = 1

\* C5 as stated: every finished run that created a check-in has updated it
\* exactly once, with status Ok or Error and a duration.
C5_Original ==
    (RunDone /\ CreateCalled /\ monitor_checkin.ok)
        => /\ Len(updates) = 1
           /\ updates[1].id = monitor_checkin.id
           /\ updates[1].status \in {"Ok", "Error"}
           /\ updates[1].duration >= 0

\* C6: for a monitor argument that is not a UUID no creation call, spawn or
\* update is ever made and the run ends with the parse error.
C6_InvalidMonitorFailsFast ==
    (cmd = "run" /\ ~ValidMonitor)
        => /\ effects = <<>> /\ updates = <<>>
           /\ pc \in {"parse", "done"}
           /\ pc = "done" => result = Err("invalid monitor ID")
C6_Witness ==
    /\ RunDone /\ monitorArg = "my-monitor" /\ allow_failure
    /\ result = Err("invalid monitor ID")

----------------------------------------------------------------------------
(* Properties of appcenter-upload *)

UploadDone == cmd = "upload" /\ pc = "done"
PassDists == [i \in 1..Len(passes) |-> passes[i].dist]
Made(op) == \E i \in 1..Len(effects) : effects[i] = op

\* C7: in a run where every call succeeds there is one pass without dist when
\* no --dist was given, else one pass per --dist value in the order given.
C7_PassesFollowDists ==
    (UploadDone /\ ~print_release_name /\ result = Ok)
        => IF Len(dists) = 0
           THEN Len(passes) = 1 /\ ~passes[1].dist.some
           ELSE /\ Len(passes) = Len(dists)
                /\ \A i \in 1..Len(dists) :
                      passes[i].dist.some /\ passes[i].dist.val = dists[i]
C7_Witness ==
    /\ UploadDone /\ result = Ok
    /\ dists = <<"staging", "prod">>
    /\ PassDists = <<SomeStr("staging"), SomeStr("prod")>>

\* C8: a failed pass is the last one: the run is over with the upload error,
\* the earlier passes were made for the earlier --dist values and succeeded,
\* and no pass follows.
C8_UploadFailsFast ==
    \A k \in 1..Len(passes) :
        ~passes[k].ok
            => /\ k = Len(passes)
               /\ pc = "done" /\ result = Err("upload")
               /\ \A i \in 1..(k - 1) : passes[i].ok
               /\ dists # <<>> =>
                     \A i \in 1..k : passes[i].dist = SomeStr(dists[i])
C8_Witness ==
    /\ UploadDone /\ Len(dists) = 3
    /\ Len(passes) = 2 /\ passes[1].ok /\ ~passes[2].ok
    /\ result = Err("upload")

FileAndNetworkOps == {"read_dir", "entry_err", "collect_file", "rewrite",
                      "add_references", "new_release", "upload"}
ReleaseLine == [line |-> "release", arg |-> release]

\* C9 as stated: with --print-release-name the run returns success having
\* printed only the release name, with no listing, collection, rewrite,
\* reference injection, release creation or upload.
C9_Original ==
    (UploadDone /\ print_release_name)
        => /\ result = Ok
           /\ stdout = <<ReleaseLine>>
           /\ \A op \in FileAndNetworkOps : ~Made(op)

\* C9, amended: with --print-release-name no progress line is printed and no
\* listing, collection, rewrite, reference injection, release creation or
\* upload happens; the package lookup and the name computation do happen,
\* and the run returns success having printed only the release name when
\* they succeed, and otherwise their error (or the set-up error) having
\* printed nothing.
C9_PrintReleaseNameReturnsEarly ==
    (cmd = "upload" /\ print_release_name)
        => /\ \A op \in FileAndNetworkOps : ~Made(op)
           /\ processor = <<>> /\ passes = <<>>
           /\ \A i \in 1..Len(stdout) : stdout[i].line = "release"
           /\ pc = "done" =>
                 \/ result = Ok /\ stdout = <<ReleaseLine>>
                       /\ effects = <<"package", "release_name">>
                 \/ /\ result.kind = "error"
                    /\ result.err \in {"current_dir", "config", "package",
                                       "release_name"}
                    /\ stdout = <<>>
C9_Witness ==
    /\ UploadDone /\ print_release_name
    /\ result = Ok /\ stdout = <<ReleaseLine>>

LastEffect == IF effects = <<>> THEN None ELSE effects[Len(effects)]

AllEntriesRead == ~Made("entry_err")
CollectionOver ==
    /\ cmd = "upload"
    /\ \/ pc \in {"rewrite", "add_references", "new_release", "upload"}
       \/ pc = "done" /\ Made("rewrite")
UrlsOut == << <<"~", "/", "a", ".", "j", "s", "b", "u", "n", "d", "l", "e">>,
              <<"~", "/", "a", ".", "m", "a", "p">>,
              <<"~", "/", "b", ".", "b", "u", "n", "d", "l", "e">> >>
UrlsMaps == << <<"~", "/", "x", ".", "m", "i", "n", ".", "m", "a", "p">> >>
UrlsOf(dir) ==
    IF dir = "out" THEN UrlsOut ELSE IF dir = "maps" THEN UrlsMaps ELSE <<>>
RECURSIVE UrlsOfAll(_)
UrlsOfAll(ds) ==
    IF ds = <<>> THEN <<>> ELSE UrlsOf(ds[1]) \o UrlsOfAll(Tail(ds))

----------------------------------------------------------------------------
(* Further properties of monitors run *)

\* Every a in the effects comes before every b.
Before(a, b) ==
    LET as == {i \in 1..Len(effects) : effects[i] = a}
        bs == {j \in 1..Len(effects) : effects[j] = b}
    IN  \A i \in as, j \in bs : i < j

C14_UpdateOnlyAfterCreate ==
    cmd = "run"
        => /\ ~monitor_checkin.ok => updates = <<>> /\ ~Made("update")
           /\ \A i \in 1..Len(updates) :
                 /\ CreateCalled /\ monitor_checkin.ok
                 /\ updates[i].id = monitor_checkin.id
                 /\ ChildExited
                 /\ updates[i].status \in {"Ok", "Error"}
                 /\ updates[i].status = "Ok"
                       <=> (exit_status.exited /\ exit_status.code = 0)
C14_Witness ==
    /\ RunDone /\ Len(updates) = 1
    /\ exit_status = Signalled
    /\ updates[1].status = "Error" /\ updates[1].id = "c2"

\* C15: in a finished run that sent an update, the result is determined by
\* the child's exit status alone, so it is the same whether the update
\* succeeded or failed.
C15_UpdateOutcomeIgnored ==
    (RunDone /\ updates # <<>>)
        => result = IF exit_status.exited /\ exit_status.code = 0 THEN Ok
                    ELSE IF exit_status.exited
                         THEN QuietExit(exit_status.code)
                         ELSE QuietExit(1)
C15_Witness ==
    /\ RunDone /\ Len(updates) = 1 /\ ~updates[1].ok
    /\ Success(exit_status) /\ result = Ok

RunOrder == <<"create", "spawn", "exit", "update">>

\* C16: the calls happen in the order creation, spawn, child exit, update,
\* each at most once and none before its predecessor; the result is set
\* only when the run is over, and an Ok or quiet result only after the child
\* ended and after the update of a created check-in.
C16_SequentialOrder ==
    cmd = "run"
        => /\ Len(effects) <= Len(RunOrder)
           /\ \A i \in 1..Len(effects) : effects[i] = RunOrder[i]
           /\ result # Running <=> pc = "done"
           /\ result.kind \in {"ok", "quiet"}
                 => /\ Made("exit")
                    /\ monitor_checkin.ok => Made("update")
C16_Witness ==
    /\ RunDone /\ effects = RunOrder
    /\ result = QuietExit(2)

\* C17: when the spawn fails the run is over with the spawn error and no
\* update, whatever the creation outcome and allow_failure are.
C17_SpawnFailureIsFatal ==
    (cmd = "run" /\ LastEffect = "spawn" /\ pc # "wait")
        => /\ pc = "done"
           /\ result = Err("spawn")
           /\ updates = <<>>
C17_Witness ==
    /\ RunDone /\ CreateFailed /\ ~allow_failure
    /\ effects = <<"create", "spawn">>
    /\ result = Err("spawn")

\* C18: when creation succeeded or allow_failure is true, a child that ends
\* unsuccessfully gives a quiet exit with its code, or with 1 when it has no
\* code.
C18_QuietExitCode ==
    (RunDone /\ ChildExited /\ (monitor_checkin.ok \/ allow_failure)
       /\ ~(exit_status.exited /\ exit_status.code = 0))
        => result = IF exit_status.exited THEN QuietExit(exit_status.code)
                    ELSE QuietExit(1)
C18_Witness ==
    /\ RunDone /\ monitor_checkin.ok /\ ~allow_failure
    /\ exit_status = Signalled
    /\ result = QuietExit(1)

----------------------------------------------------------------------------
(* Further properties of appcenter-upload *)

\* C19: new_release is called at most once and before every upload; uploads
\* happen only after it succeeded, and a failed creation ends the run with
\* its error and no pass; every pass carries the version that call returned.
\* The order is checked at the state each call is made in: every earlier
\* call is the last one of an earlier state.
C19_OneReleaseForAllPasses ==
    cmd = "upload"
        => /\ LastEffect = "new_release"
                 => /\ Count(effects, "new_release") = 1
                    /\ ~Made("upload") /\ passes = <<>>
           /\ LastEffect = "upload"
                 => /\ Made("new_release")
                    /\ Len(passes) = Count(effects, "upload")
           /\ passes # <<>>
                 => /\ version \in VersionsFor(release)
                    /\ \A i \in 1..Len(passes) : passes[i].release = version
           /\ result = Err("new_release")
                 => /\ pc = "done" /\ LastEffect = "new_release"
                    /\ passes = <<>> /\ version = None
C19_Witness ==
    /\ UploadDone /\ result = Ok /\ Len(dists) = 2
    /\ version = "normalised"
    /\ Len(passes) = 2
    /\ passes[1].release = "normalised" /\ passes[2].release = "normalised"

CollectionOps == {"read_dir", "entry_err", "collect_file"}
NoReleaseNoUpload ==
    ~Made("new_release") /\ ~Made("upload") /\ passes = <<>> /\ version = None

\* C20: rewrite is called only once every given directory has been listed
\* and all its entries visited, and no collection follows it; reference
\* injection only right after the rewrite, release creation only right after
\* the injection; a run that ends with the error of either has made no
\* release creation call and no upload pass.  The order is checked at the
\* state each call is made in.
C20_RewriteThenReferencesThenRelease ==
    cmd = "upload"
        => /\ LastEffect = "rewrite"
                 => /\ Count(effects, "read_dir") = Len(paths)
                    /\ pathIdx = Len(paths)
                    /\ entryIdx = Len(Listing(paths[pathIdx]))
                    /\ Count(effects, "rewrite") = 1
           /\ LastEffect \in CollectionOps => ~Made("rewrite")
           /\ LastEffect = "add_references"
                 => /\ effects[Len(effects) - 1] = "rewrite"
                    /\ result # Err("rewrite")
           /\ LastEffect = "new_release"
                 => effects[Len(effects) - 1] = "add_references"
           /\ result = Err("rewrite")
                 => pc = "done" /\ LastEffect = "rewrite" /\ NoReleaseNoUpload
           /\ result = Err("add_references")
                 => /\ pc = "done" /\ LastEffect = "add_references"
                    /\ NoReleaseNoUpload
C20_Witness ==
    /\ UploadDone /\ result = Err("add_references")
    /\ Len(paths) = 2 /\ Count(effects, "read_dir") = 2
    /\ processor # <<>>
    /\ NoReleaseNoUpload

----------------------------------------------------------------------------
(* Properties of monitors list *)

\* a <= b in lexicographic order: a is a prefix of b, or at the first
\* position where they differ a has the smaller character.
IsPrefix(a, b) == Len(a) <= Len(b) /\ SubSeq(b, 1, Len(a)) = a
LexLeq(a, b) ==
    \/ IsPrefix(a, b)
    \/ \E k \in 1..Len(a) :
          /\ k <= Len(b)
          /\ SubSeq(a, 1, k - 1) = SubSeq(b, 1, k - 1)
          /\ CharCode(a[k]) < CharCode(b[k])
RowOf(m) == <<m.id, m.name, m.status>>
Rows(ms) == [i \in 1..Len(ms) |-> RowOf(ms[i])]

\* C12: the printed rows are the returned monitors, each as often as it was
\* returned, in ascending lexicographic order of name.
C12_ListSortedByName ==
    (cmd = "list" /\ pc = "done" /\ result = Ok)
        => /\ Len(table) = Len(served)
           /\ \A m \in Monitors :
                 Count(table, RowOf(m)) = Count(served, m)
           /\ \A i \in 1..(Len(table) - 1) :
                 LexLeq(table[i][2], table[i + 1][2])
C12_Witness ==
    /\ cmd = "list" /\ pc = "done" /\ result = Ok
    /\ Rows(served) = << <<"m1", <<"b">>, "active">>,
                         <<"m2", <<"Z">>, "active">>,
                         <<"m1", <<"a", "b">>, "active">> >>
    /\ table = << <<"m2", <<"Z">>, "active">>,
                  <<"m1", <<"a", "b">>, "active">>,
                  <<"m1", <<"b">>, "active">> >>

====
